---- MODULE Spec2Model ----
(***************************************************************************)
(* BlockTransactions<N> (dpc/src/block/transactions.rs): the ordered list  *)
(* of transactions of one block, its gated push, its full validation pass, *)
(* its aggregate queries and its wire format.                              *)
(***************************************************************************)
EXTENDS Integers, Sequences, FiniteSets, TLC

VARIABLES
    transactions,   \* self.0: the Vec<Transaction<N>>
    gated,          \* ghost: TRUE while the list was built by new() and push() alone
    last            \* ghost: the last call, its argument, self.0 before it, its outcome

vars == <<transactions, gated, last>>

(***************************************************************************)
(* Bounds of the model.                                                    *)
(***************************************************************************)
\* The longest list of transactions the model builds.
MaxLen == 3

(***************************************************************************)
(* Outcomes of a call: a returned value, a returned error, or a panic      *)
(* (assert!, capacity overflow, allocation failure).                       *)
(***************************************************************************)
Ok(v) == [kind |-> "ok", val |-> v]

Err(m) == [kind |-> "err", msg |-> m]

Panic(m) == [kind |-> "panic", msg |-> m]

EmptyListPanic == Panic("Cannot process an empty list of transactions")

(***************************************************************************)
(* Transaction<N>: the part of a transaction this file reads: is_valid(),  *)
(* serial_numbers(), commitments(), value_balance().                       *)
(***************************************************************************)
Tx(v, sns, cms, vb) == [valid |-> v, serial_numbers |-> sns, commitments |-> cms, value_balance |-> vb]

\* The transactions callers hand to from() and push().
TxUniverse ==
    { Tx(TRUE,  <<1>>,    <<1>>, -10),   \* a coinbase transaction
      Tx(TRUE,  <<2>>,    <<2>>, 2),     \* a paying transaction
      Tx(TRUE,  <<3>>,    <<3>>, 3),     \* a paying transaction
      Tx(TRUE,  <<2, 4>>, <<4>>, 0),     \* spends serial number 2 again
      Tx(FALSE, <<3>>,    <<5>>, 1),     \* invalid, and spends serial number 3 again
      Tx(TRUE,  <<5>>,    <<6>>, -1),    \* a second coinbase transaction
      Tx(TRUE,  <<6>>,    <<3>>, 0),     \* creates commitment 3 again
      Tx(TRUE,  <<7, 7>>, <<7>>, 4) }    \* lists serial number 7 twice

RECURSIVE SeqsUpTo(_)
SeqsUpTo(n) ==
    IF n = 0 THEN { <<>> }
    ELSE LET shorter == SeqsUpTo(n - 1)
         IN  shorter \cup { Append(s, t) : s \in { x \in shorter : Len(x) = n - 1 }, t \in TxUniverse }

TxLists == SeqsUpTo(MaxLen)

\* AleoAmount::is_negative
is_negative(a) == a < 0

\* AleoAmount::add
add(a, b) == a + b

\* N::BLOCK_COINBASE_TX_COUNT
BLOCK_COINBASE_TX_COUNT == 1

\* snarkvm_utilities::has_duplicates
has_duplicates(list) == \E i, j \in 1..Len(list) : i < j /\ list[i] = list[j]

\* Iterator::flatten over a list of lists, in order.
RECURSIVE flatten(_)
flatten(lists) == IF lists = <<>> THEN <<>> ELSE Head(lists) \o flatten(Tail(lists))

\* Iterator::reduce(|a, b| a.add(b)): None (here <<>>) on an empty list.
RECURSIVE fold_add(_, _)
fold_add(acc, list) == IF list = <<>> THEN acc ELSE fold_add(add(acc, Head(list)), Tail(list))

reduce_add(list) == IF list = <<>> THEN <<>> ELSE <<fold_add(Head(list), Tail(list))>>

(***************************************************************************)
(* Construction and mutation.                                              *)
(***************************************************************************)
new == <<>>

\* Faulty variant of from: drops the invalid transactions.
from_filtered(txs) == SelectSeq(txs, LAMBDA t : t.valid)

from(txs) == txs

\* Faulty variant of push: appends without asking transaction.is_valid().
push_unchecked(self, transaction) == [self |-> Append(self, transaction), result |-> Ok("unit")]

push(self, transaction) ==
    IF transaction.valid
    THEN [self |-> Append(self, transaction), result |-> Ok("unit")]
    ELSE [self |-> self, result |-> Err("Failed to push due to an invalid transaction")]

(***************************************************************************)
(* Aggregate queries.                                                      *)
(***************************************************************************)
\* Transaction::to_transaction_id()?.to_bytes_le()?: a deterministic,
\* collision-free function of the transaction's content.
to_transaction_id(tx) == <<"id", tx>>

\* MerkleTree::new(parameters, leaves)?.root(): a deterministic, collision-free
\* function of the ordered leaves.
merkle_root(leaves) == <<"root", leaves>>

\* The errors of to_transaction_id, to_bytes_le and MerkleTree::new are those of
\* the proving engine and the accumulator, and are not modelled.
to_transactions_root(self) ==
    IF self = <<>> THEN EmptyListPanic
    ELSE Ok(merkle_root([i \in 1..Len(self) |-> to_transaction_id(self[i])]))

to_commitments(self) ==
    IF self = <<>> THEN EmptyListPanic
    ELSE Ok(flatten([i \in 1..Len(self) |-> self[i].commitments]))

\* Faulty variant of to_serial_numbers: the first member's serial numbers only.
to_serial_numbers_first_only(self) ==
    IF self = <<>> THEN EmptyListPanic
    ELSE Ok(self[1].serial_numbers)

to_serial_numbers(self) ==
    IF self = <<>> THEN EmptyListPanic
    ELSE Ok(flatten([i \in 1..Len(self) |-> self[i].serial_numbers]))

to_coinbase_transaction_count(self) ==
    Len(SelectSeq(self, LAMBDA t : is_negative(t.value_balance)))

\* Faulty variant of to_transaction_fees: the filter on the sign is missing.
to_transaction_fees_unfiltered(self) ==
    LET sum == reduce_add([i \in 1..Len(self) |-> self[i].value_balance])
    IN  IF sum = <<>>
        THEN Err("Failed to compute the transaction fees for block")
        ELSE Ok(sum[1])

to_transaction_fees(self) ==
    LET paying == SelectSeq(self, LAMBDA t : ~is_negative(t.value_balance))
        sum == reduce_add([i \in 1..Len(paying) |-> paying[i].value_balance])
    IN  IF sum = <<>>
        THEN Err("Failed to compute the transaction fees for block")
        ELSE Ok(sum[1])

\* Faulty variant of to_net_value_balance: the coinbase members are left out.
to_net_value_balance_paying_only(self) ==
    IF self = <<>> THEN EmptyListPanic
    ELSE to_transaction_fees(self)

to_net_value_balance(self) ==
    IF self = <<>> THEN EmptyListPanic
    ELSE LET sum == reduce_add([i \in 1..Len(self) |-> self[i].value_balance])
         IN  IF sum = <<>>
             THEN Err("Failed to compute net value balance for block")
             ELSE Ok(sum[1])

(***************************************************************************)
(* Full validation.  The outcome carries the line written to stderr        *)
(* before a false return ("" when is_valid returns true).                  *)
(***************************************************************************)
Verdict(b, diagnostic) == [kind |-> "ok", val |-> b, diagnostic |-> diagnostic]

InvalidTransactionFound == "Invalid transaction found in the transactions list"

DuplicateSerialNumbers == "Found duplicate serial numbers in the transactions"

DuplicateCommitments == "Found duplicate commitments in the transactions"

WrongCoinbaseCount == "Block must have exactly {} coinbase transaction(s), found {}"

\* Faulty variant of is_valid: the duplicate-commitment check is missing.
is_valid_skipping_commitments(self) ==
    IF \E i \in 1..Len(self) : ~self[i].valid
    THEN Verdict(FALSE, InvalidTransactionFound)
    ELSE LET serial_numbers == to_serial_numbers(self)
             num_coinbase == to_coinbase_transaction_count(self)
         IN  IF serial_numbers.kind = "panic" THEN serial_numbers
             ELSE IF serial_numbers.kind = "err"
             THEN Verdict(FALSE, "Failed to retrieve serial numbers from the transactions: {}")
             ELSE IF has_duplicates(serial_numbers.val) THEN Verdict(FALSE, DuplicateSerialNumbers)
             ELSE IF num_coinbase # BLOCK_COINBASE_TX_COUNT THEN Verdict(FALSE, WrongCoinbaseCount)
             ELSE Verdict(TRUE, "")

is_valid(self) ==
    IF \E i \in 1..Len(self) : ~self[i].valid
    THEN Verdict(FALSE, InvalidTransactionFound)
    ELSE LET serial_numbers == to_serial_numbers(self)
             commitments == to_commitments(self)
             num_coinbase == to_coinbase_transaction_count(self)
         IN  IF serial_numbers.kind = "panic" THEN serial_numbers
             ELSE IF serial_numbers.kind = "err"
             THEN Verdict(FALSE, "Failed to retrieve serial numbers from the transactions: {}")
             ELSE IF has_duplicates(serial_numbers.val) THEN Verdict(FALSE, DuplicateSerialNumbers)
             ELSE IF commitments.kind = "panic" THEN commitments
             ELSE IF commitments.kind = "err"
             THEN Verdict(FALSE, "Failed to retrieve commitments from the transactions: {}")
             ELSE IF has_duplicates(commitments.val) THEN Verdict(FALSE, DuplicateCommitments)
             ELSE IF num_coinbase # BLOCK_COINBASE_TX_COUNT THEN Verdict(FALSE, WrongCoinbaseCount)
             ELSE Verdict(TRUE, "")

(***************************************************************************)
(* Wire format: varint(count) || tx_1 || ... || tx_count.  Bytes are       *)
(* numbers in 0..255.                                                      *)
(***************************************************************************)
Zeros(n) == [i \in 1..n |-> 0]

\* u64::to_le_bytes over `width` bytes (value < 2^31 in the model).
RECURSIVE to_le_bytes(_, _)
to_le_bytes(value, width) ==
    IF width = 0 THEN <<>> ELSE <<value % 256>> \o to_le_bytes(value \div 256, width - 1)

\* variable_length_integer(value): the Bitcoin-style variable-length integer.
variable_length_integer(value) ==
    IF value < 253 THEN <<value>>
    ELSE IF value < 65536 THEN <<253>> \o to_le_bytes(value, 2)
    ELSE <<254>> \o to_le_bytes(value, 4)

\* A decoded usize, kept as its 8 little-endian bytes: the model's integers are
\* narrower than usize.
Usize(le) == le \o Zeros(8 - Len(le))

\* A count of 65536 or more stands for "more than any input of the model holds".
Saturated == 256 * 256

usize_value(n) ==
    IF \A i \in 3..8 : n[i] = 0 THEN n[1] + 256 * n[2] ELSE Saturated

\* read_variable_length_integer(reader): the count and the bytes left in the
\* reader; a truncated or non-canonical encoding is an error.
read_variable_length_integer(bytes) ==
    IF bytes = <<>> THEN Err("failed to fill whole buffer")
    ELSE LET flag == bytes[1]
             width == IF flag < 253 THEN 0 ELSE IF flag = 253 THEN 2 ELSE IF flag = 254 THEN 4 ELSE 8
         IN  IF flag < 253 THEN Ok([count |-> Usize(<<flag>>), rest |-> Tail(bytes)])
             ELSE IF Len(bytes) < 1 + width THEN Err("failed to fill whole buffer")
             ELSE LET le == SubSeq(bytes, 2, 1 + width)
                      canonical ==
                          IF width = 2 THEN le[2] # 0 \/ le[1] >= 253
                          ELSE \E i \in (width \div 2 + 1)..width : le[i] # 0
                  IN  IF canonical
                      THEN Ok([count |-> Usize(le), rest |-> SubSeq(bytes, 2 + width, Len(bytes))])
                      ELSE Err("Invalid variable size integer")

\* Transaction::write_le: the transaction's own self-delimiting encoding.
tx_write_le(tx) ==
    <<IF tx.valid THEN 1 ELSE 0>>
        \o <<Len(tx.serial_numbers)>> \o tx.serial_numbers
        \o <<Len(tx.commitments)>> \o tx.commitments
        \o <<tx.value_balance % 256>>

\* Transaction::read_le: the transaction and the bytes left in the reader.
tx_read_le(bytes) ==
    IF Len(bytes) < 2 THEN Err("failed to fill whole buffer")
    ELSE IF bytes[1] \notin {0, 1} THEN Err("invalid transaction encoding")
    ELSE LET ns == bytes[2]
         IN  IF Len(bytes) < 3 + ns THEN Err("failed to fill whole buffer")
             ELSE LET nc == bytes[3 + ns]
                      end == 4 + ns + nc
                  IN  IF Len(bytes) < end THEN Err("failed to fill whole buffer")
                      ELSE Ok([tx |-> Tx(bytes[1] = 1,
                                         SubSeq(bytes, 3, 2 + ns),
                                         SubSeq(bytes, 4 + ns, 3 + ns + nc),
                                         IF bytes[end] < 128 THEN bytes[end] ELSE bytes[end] - 256),
                               rest |-> SubSeq(bytes, end + 1, Len(bytes))])

write_le(self) ==
    Ok(variable_length_integer(Len(self)) \o flatten([i \in 1..Len(self) |-> tx_write_le(self[i])]))

\* for _ in 0..num_transactions { transactions.push(FromBytes::read_le(&mut reader)?) }
RECURSIVE read_transactions(_, _, _)
read_transactions(bytes, remaining, acc) ==
    IF remaining = 0 THEN Ok(acc)
    ELSE LET tx == tx_read_le(bytes)
         IN  IF tx.kind = "err" THEN tx
             ELSE read_transactions(tx.val.rest, remaining - 1, Append(acc, tx.val.tx))

\* Vec::with_capacity(n) panics ("capacity overflow") when n * size_of::<Transaction<N>>()
\* exceeds isize::MAX; the model panics only where every size_of does: n > isize::MAX.
capacity_overflow(n) == n[8] >= 128

read_le(bytes) ==
    LET num_transactions == read_variable_length_integer(bytes)
    IN  IF num_transactions.kind = "err" THEN num_transactions
        ELSE IF capacity_overflow(num_transactions.val.count)
        THEN Panic("capacity overflow")
        ELSE read_transactions(num_transactions.val.rest, usize_value(num_transactions.val.count), <<>>)

(***************************************************************************)
(* The state machine: one action per call on the transaction list.         *)
(***************************************************************************)
Call(op, arg, pre, result) == [op |-> op, arg |-> arg, pre |-> pre, result |-> result]

Init ==
    \/ /\ transactions = new
       /\ gated = TRUE
       /\ last = Call("new", "none", "none", Ok(new))
    \/ \E txs \in TxLists :
          /\ transactions = from(txs)
          /\ gated = FALSE
          /\ last = Call("from", txs, "none", Ok(from(txs)))

Push(transaction) ==
    /\ Len(transactions) < MaxLen
    /\ transactions' = push(transactions, transaction).self
    /\ last' = Call("push", transaction, transactions, push(transactions, transaction).result)
    /\ UNCHANGED gated

Query(op, result) ==
    /\ last' = Call(op, "none", transactions, result)
    /\ UNCHANGED <<transactions, gated>>

IsValid == Query("is_valid", is_valid(transactions))

ToTransactionsRoot == Query("to_transactions_root", to_transactions_root(transactions))

ToCommitments == Query("to_commitments", to_commitments(transactions))

ToSerialNumbers == Query("to_serial_numbers", to_serial_numbers(transactions))

ToCoinbaseTransactionCount ==
    Query("to_coinbase_transaction_count", Ok(to_coinbase_transaction_count(transactions)))

ToTransactionFees == Query("to_transaction_fees", to_transaction_fees(transactions))

ToNetValueBalance == Query("to_net_value_balance", to_net_value_balance(transactions))

WriteLe == Query("write_le", write_le(transactions))

\* The headers a peer may put in front of the members in place of the count.
ForgedCounts ==
    { <<253, 0, 1>>,                            \* 256
      <<253, 3, 0>>,                            \* 3, not canonical
      <<254, 0, 0, 1, 0>>,                      \* 65536
      <<255, 0, 0, 0, 0, 1, 0, 0, 0>>,          \* 2^32
      <<255, 0, 0, 0, 0, 0, 0, 0, 128>>,        \* 2^63
      <<255, 255, 255, 255, 255, 255, 255, 255, 255>>,   \* 2^64 - 1
      <<255, 0, 0>> }                           \* cut inside the count

\* The byte strings read_le is given: the encoding of the list, the encoding cut
\* short, with bytes left over, with another count, with a member that does
\* not decode.
WireInputs(self) ==
    LET bytes == write_le(self).val
        members == Tail(bytes)
    IN  {bytes, bytes \o <<9>>}
          \cup { SubSeq(bytes, 1, k) : k \in {0, 1, 2, Len(bytes) - 1} \cap (0..(Len(bytes) - 1)) }
          \cup { <<c>> \o members : c \in {0, Len(self) + 1} }
          \cup { h \o members : h \in ForgedCounts }
          \cup { <<Len(self), 7>> \o Tail(members) : x \in { y \in {1} : members # <<>> } }

ReadLe(bytes) ==
    /\ last' = Call("read_le", bytes, transactions, read_le(bytes))
    /\ UNCHANGED <<transactions, gated>>

\* deref_mut hands out &mut Vec<Transaction<N>>: the caller applies a method of Vec.
deref_mut(self, method, transaction) ==
    IF method = "pop" THEN SubSeq(self, 1, Len(self) - 1)
    ELSE IF method = "clear" THEN <<>>
    ELSE Append(self, transaction)

DerefMut(method, transaction) ==
    /\ method = "pop" => transactions # <<>>
    /\ method = "push" => Len(transactions) < MaxLen
    /\ transactions' = deref_mut(transactions, method, transaction)
    /\ gated' = FALSE
    /\ last' = Call("deref_mut", <<method, transaction>>, transactions, Ok("unit"))

\* The methods of Vec the model's callers use through deref_mut, each with its argument.
VecCalls == { <<"pop", "none">>, <<"clear", "none">> } \cup { <<"push", t>> : t \in TxUniverse }

Next ==
    \/ \E transaction \in TxUniverse : Push(transaction)
    \/ IsValid
    \/ ToTransactionsRoot
    \/ ToCommitments
    \/ ToSerialNumbers
    \/ ToCoinbaseTransactionCount
    \/ ToTransactionFees
    \/ ToNetValueBalance
    \/ WriteLe
    \/ \E bytes \in WireInputs(transactions) : ReadLe(bytes)
    \/ \E call \in VecCalls : DerefMut(call[1], call[2])

Spec == Init /\ [][Next]_vars

(***************************************************************************)
(* Vocabulary of the properties, stated apart from the operators above.    *)
(***************************************************************************)
IsPrefix(s, t) == Len(s) <= Len(t) /\ SubSeq(t, 1, Len(s)) = s

\* I1: every member is individually valid.
I1(self) == \A i \in 1..Len(self) : self[i].valid

\* The places <<member, index>> of the serial numbers and of the commitments.
SerialPlaces(self) ==
    UNION { { <<i, k>> : k \in 1..Len(self[i].serial_numbers) } : i \in 1..Len(self) }

CommitmentPlaces(self) ==
    UNION { { <<i, k>> : k \in 1..Len(self[i].commitments) } : i \in 1..Len(self) }

\* I2: no serial number occurs at two places.
I2(self) ==
    \A p, q \in SerialPlaces(self) :
        p # q => self[p[1]].serial_numbers[p[2]] # self[q[1]].serial_numbers[q[2]]

\* I3: no commitment occurs at two places.
I3(self) ==
    \A p, q \in CommitmentPlaces(self) :
        p # q => self[p[1]].commitments[p[2]] # self[q[1]].commitments[q[2]]

Coinbases(self) == { i \in 1..Len(self) : self[i].value_balance < 0 }

Payers(self) == { i \in 1..Len(self) : self[i].value_balance >= 0 }

\* I4: the number of coinbase members is the required one.
I4(self) == Cardinality(Coinbases(self)) = BLOCK_COINBASE_TX_COUNT

\* The sum of the value balances of the members at the places in S.
RECURSIVE BalanceOver(_, _)
BalanceOver(self, S) ==
    IF S = {} THEN 0
    ELSE LET i == CHOOSE x \in S : TRUE
         IN  self[i].value_balance + BalanceOver(self, S \ {i})

\* Every reordering of the members.
Reorderings(self) ==
    { [i \in 1..Len(self) |-> self[p[i]]] :
        p \in { f \in [1..Len(self) -> 1..Len(self)] : \A a, b \in 1..Len(self) : a # b => f[a] # f[b] } }

\* Two distinct members share a serial number.
SharedSerialNumber(self) ==
    \E i, j \in 1..Len(self) :
        /\ self[i] # self[j]
        /\ \E a \in 1..Len(self[i].serial_numbers), b \in 1..Len(self[j].serial_numbers) :
              self[i].serial_numbers[a] = self[j].serial_numbers[b]

(***************************************************************************)
(* The properties.                                                         *)
(***************************************************************************)

\* C1: push(transaction) appends the transaction at the end iff it is valid;
\* an invalid transaction yields the invalid-transaction error and leaves the
\* list, its length and its order, as it was before the call.
C1_PushAppendsIffValid ==
    last.op = "push" =>
        IF last.arg.valid
        THEN transactions = Append(last.pre, last.arg) /\ last.result.kind = "ok"
        ELSE /\ transactions = last.pre
             /\ last.result = Err("Failed to push due to an invalid transaction")

C1_Witness ==
    /\ last.op = "push"
    /\ ~last.arg.valid
    /\ Len(last.pre) >= 2
    /\ last.result.kind = "err"

\* C2: is_valid() is total: on every list built with new(), from() and push(),
\* the empty list included, it returns true or false and never aborts.
C2_IsValidTotal ==
    last.op = "is_valid" => last.result.kind = "ok" /\ last.result.val \in BOOLEAN

\* C3: on a non-empty list is_valid() returns true exactly when I1, I2, I3 and
\* I4 hold together; a list with no coinbase member or with two or more fails
\* under a required count of one; the result is the same for every reordering
\* of the members.
C3_IsValidIffInvariants ==
    (last.op = "is_valid" /\ transactions # <<>>) =>
        /\ last.result.kind = "ok"
        /\ last.result.val = (I1(transactions) /\ I2(transactions) /\ I3(transactions) /\ I4(transactions))
        /\ Cardinality(Coinbases(transactions)) # 1 => last.result.val = FALSE
        /\ \A other \in Reorderings(transactions) :
              is_valid(other).kind = "ok" /\ is_valid(other).val = last.result.val

C3_Witness ==
    /\ last.op = "is_valid"
    /\ Len(transactions) >= 3
    /\ last.result.kind = "ok"
    /\ last.result.val = TRUE

\* C4 as stated: a list holding two distinct transactions that share a serial
\* number fails is_valid(), and the failure is the duplicate-serial-number
\* check whether or not the two are individually valid.
C4_DoubleSpendAlwaysI2 ==
    (last.op = "is_valid" /\ SharedSerialNumber(transactions)) =>
        /\ last.result.kind = "ok"
        /\ last.result.val = FALSE
        /\ last.result.diagnostic = DuplicateSerialNumbers

\* C4 as amended: such a list fails is_valid(); the failure is the
\* duplicate-serial-number check when every member is individually valid, and
\* the per-transaction validity check when some member is invalid.
C4_DoubleSpendRejected ==
    (last.op = "is_valid" /\ SharedSerialNumber(transactions)) =>
        /\ last.result.kind = "ok"
        /\ last.result.val = FALSE
        /\ last.result.diagnostic =
              IF I1(transactions) THEN DuplicateSerialNumbers ELSE InvalidTransactionFound

C4_Witness ==
    /\ last.op = "is_valid"
    /\ SharedSerialNumber(transactions)
    /\ I1(transactions)
    /\ last.result.kind = "ok"
    /\ last.result.val = FALSE
    /\ last.result.diagnostic = DuplicateSerialNumbers

\* C5: on an empty list each of to_transactions_root, to_commitments,
\* to_serial_numbers, to_net_value_balance and to_transaction_fees takes the
\* fatal assertion path: none returns an error, an empty sequence or zero.
C5_EmptySetContract ==
    ( /\ last.op \in { "to_transactions_root", "to_commitments", "to_serial_numbers",
                       "to_net_value_balance", "to_transaction_fees" }
      /\ last.pre = <<>> )
        => last.result.kind = "panic"

\* C6: to_transaction_fees() returns the sum of the value balances of exactly
\* the members with a non-negative value balance; on a list with members but
\* none of them non-negative it returns an error.
C6_FeesOverPayers ==
    last.op = "to_transaction_fees" =>
        /\ Payers(transactions) # {} =>
              last.result = Ok(BalanceOver(transactions, Payers(transactions)))
        /\ (transactions # <<>> /\ Payers(transactions) = {}) =>
              last.result = Err("Failed to compute the transaction fees for block")

C6_Witness ==
    /\ last.op = "to_transaction_fees"
    /\ Coinbases(transactions) # {}
    /\ \E i \in Payers(transactions) : transactions[i].value_balance = 0
    /\ \E i \in Payers(transactions) : transactions[i].value_balance > 0
    /\ last.result.kind = "ok"

\* The list holds a coinbase of -10 and two paying members of 2 and 3.
IsFeeExample(self) ==
    /\ Len(self) = 3
    /\ \E i, j, k \in 1..3 :
          /\ {i, j, k} = 1..3
          /\ self[i].value_balance = -10
          /\ self[j].value_balance = 2
          /\ self[k].value_balance = 3

\* C7: on a non-empty list to_net_value_balance() returns the sum of the value
\* balances of all members, which is the transaction fees plus the sum of the
\* coinbase members' balances when both groups are present; with a coinbase of
\* -10 and paying members of 2 and 3 the fees are 5, the net value balance is
\* -5 and the coinbase count is 1.
C7_NetValueBalance ==
    (last.op = "to_net_value_balance" /\ transactions # <<>>) =>
        /\ last.result = Ok(BalanceOver(transactions, 1..Len(transactions)))
        /\ (Coinbases(transactions) # {} /\ Payers(transactions) # {}) =>
              /\ to_transaction_fees(transactions).kind = "ok"
              /\ last.result.val = to_transaction_fees(transactions).val
                                     + BalanceOver(transactions, Coinbases(transactions))
        /\ IsFeeExample(transactions) =>
              /\ to_transaction_fees(transactions) = Ok(5)
              /\ last.result = Ok(-5)
              /\ to_coinbase_transaction_count(transactions) = 1

C7_Witness ==
    /\ last.op = "to_net_value_balance"
    /\ IsFeeExample(transactions)
    /\ last.result.kind = "ok"

\* The encodings of the members of a list, one after the other.
RECURSIVE MemberBytes(_)
MemberBytes(self) ==
    IF self = <<>> THEN <<>> ELSE tx_write_le(Head(self)) \o MemberBytes(Tail(self))

\* C8: write_le emits the member count followed by each member's encoding in
\* order; read_le of those bytes yields the list again, members and order;
\* when the declared count cannot be satisfied by the bytes that follow, or a
\* member does not decode, read_le returns a decode error and no list.
C8_RoundTrip ==
    /\ last.op = "write_le" =>
          last.result = Ok(<<Len(transactions)>> \o MemberBytes(transactions))
    /\ last.op = "read_le" =>
          /\ last.arg = write_le(transactions).val => last.result = Ok(transactions)
          /\ last.result.kind \in {"ok", "err"}
          /\ last.result.kind = "ok" =>
                IsPrefix(<<Len(last.result.val)>> \o MemberBytes(last.result.val), last.arg)

\* C9: the list is append-only: across every step, whatever the operation, the
\* member sequence before is a prefix of the member sequence after.
C9_AppendOnly == [][IsPrefix(transactions, transactions')]_vars

\* C10: a list built by new() and push() alone, rejected pushes included,
\* holds only individually valid members; a list obtained by from(transactions)
\* holds the given transactions as given, in order, invalid ones included.
C10_GatedMembersValid ==
    /\ gated => I1(transactions)
    /\ last.op = "from" => transactions = last.arg

C10_Witness ==
    /\ last.op = "from"
    /\ Len(transactions) >= 2
    /\ ~I1(transactions)
    /\ transactions = last.arg

====
